---- MODULE Spec2Model ----
(***************************************************************************)
(* CleanSeam API (src/app/main.py): the scoring functions and the request  *)
(* handlers of the service, over the static brand and category tables.     *)
(*                                                                         *)
(* Python floats are IEEE-754 binary64 values.  The scores of the service  *)
(* are decimal fractions (3.2, 0.3, 8.7) that binary64 cannot represent,   *)
(* and the results of round() and int() depend on the representation       *)
(* error, so the arithmetic is modelled bit for bit: a float is a 53-bit   *)
(* significand and a binary exponent, and every operation rounds the exact *)
(* result to nearest, ties to even.  Significands exceed the integers of   *)
(* the model checker, so they are kept as little-endian sequences of       *)
(* 14-bit limbs.                                                           *)
(*                                                                         *)
(* The arithmetic is written as functions, which take values: an argument  *)
(* is evaluated once, before the function is applied.                      *)
(***************************************************************************)
EXTENDS Integers, Sequences, FiniteSets, TLC

-----------------------------------------------------------------------------
(* Natural numbers of arbitrary size: <<>> is 0, the last limb is never 0. *)

LimbBits == 14
Base == 16384

Big == Seq(Nat)
\* a quotient with its remainder, and a shifted value with its lost bits
QuotRem == [q : Big, r : Nat]
Shifted == [q : Big, sticky : BOOLEAN]
\* binary64: the value of [m, e] is m * 2^e with 2^52 <= m < 2^53, or 0
Float == [m : Big, e : Int]

Pow2[n \in Nat] == IF n = 0 THEN 1 ELSE 2 * Pow2[n - 1]

BitLenSmall[n \in Nat] == IF n = 0 THEN 0 ELSE 1 + BitLenSmall[n \div 2]

BTrim[a \in Big] ==
    IF a = <<>> THEN a
    ELSE IF a[Len(a)] = 0 THEN BTrim[SubSeq(a, 1, Len(a) - 1)] ELSE a

BFromInt[n \in Nat] == IF n = 0 THEN <<>> ELSE <<n % Base>> \o BFromInt[n \div Base]

BToInt[a \in Big] == IF a = <<>> THEN 0 ELSE a[1] + Base * BToInt[Tail(a)]

BRest[a \in Big] == IF a = <<>> THEN a ELSE Tail(a)
BLow[a \in Big] == IF a = <<>> THEN 0 ELSE a[1]
BOdd[a \in Big] == BLow[a] % 2 = 1

BAddC[a \in Big, b \in Big, c \in Nat] ==
    IF a = <<>> /\ b = <<>> THEN (IF c = 0 THEN <<>> ELSE <<c>>)
    ELSE LET s == BLow[a] + BLow[b] + c
         IN  <<s % Base>> \o BAddC[BRest[a], BRest[b], s \div Base]

BAdd[a \in Big, b \in Big] == BAddC[a, b, 0]

BSubB[a \in Big, b \in Big, c \in Nat] ==
    IF a = <<>> THEN <<>>
    ELSE LET s == BLow[a] - BLow[b] - c
         IN  IF s < 0 THEN <<s + Base>> \o BSubB[Tail(a), BRest[b], 1]
             ELSE <<s>> \o BSubB[Tail(a), BRest[b], 0]

\* a - b, for a >= b
BSub[a \in Big, b \in Big] == BTrim[BSubB[a, b, 0]]

BCmpAt[a \in Big, b \in Big, i \in Nat] ==
    IF i = 0 THEN 0
    ELSE IF a[i] < b[i] THEN -1
    ELSE IF a[i] > b[i] THEN 1
    ELSE BCmpAt[a, b, i - 1]

BCmp[a \in Big, b \in Big] ==
    IF Len(a) < Len(b) THEN -1
    ELSE IF Len(a) > Len(b) THEN 1
    ELSE BCmpAt[a, b, Len(a)]

BMulSmallC[a \in Big, d \in Nat, c \in Nat] ==
    IF a = <<>> THEN (IF c = 0 THEN <<>> ELSE <<c>>)
    ELSE LET p == a[1] * d + c
         IN  <<p % Base>> \o BMulSmallC[Tail(a), d, p \div Base]

\* a * d, for 0 <= d <= Base
BMulSmall[a \in Big, d \in Nat] == BTrim[BMulSmallC[a, d, 0]]

BMul[a \in Big, b \in Big] ==
    IF b = <<>> \/ a = <<>> THEN <<>>
    ELSE LET r == BMul[a, Tail(b)]
         IN  BAdd[BMulSmall[a, b[1]], IF r = <<>> THEN r ELSE <<0>> \o r]

BDivSmallR[a \in Big, d \in Nat, i \in Nat, rem \in Nat] ==
    IF i = 0 THEN [q |-> <<>>, r |-> rem]
    ELSE LET cur  == rem * Base + a[i]
             rest == BDivSmallR[a, d, i - 1, cur % d]
         IN  [q |-> rest.q \o <<cur \div d>>, r |-> rest.r]

BDivTrim[x \in QuotRem] == [q |-> BTrim[x.q], r |-> x.r]

\* quotient and remainder of a by d, for 0 < d <= Base
BDivSmall[a \in Big, d \in Nat] ==
    IF a = <<>> THEN [q |-> <<>>, r |-> 0]
    ELSE BDivTrim[BDivSmallR[a, d, Len(a), 0]]

Zeros[n \in Nat] == [i \in 1..n |-> 0]

\* a * 2^n
BShl[a \in Big, n \in Nat] ==
    IF a = <<>> THEN a
    ELSE Zeros[n \div LimbBits] \o BMulSmall[a, Pow2[n % LimbBits]]

BShrPack[x \in QuotRem, lost \in BOOLEAN] == [q |-> x.q, sticky |-> lost \/ x.r # 0]

\* BShr, dropping the kk lowest limbs first
BShrLimbs[a \in Big, n \in Nat, kk \in Nat] ==
    BShrPack[BDivSmall[SubSeq(a, kk + 1, Len(a)), Pow2[n % LimbBits]],
             \E i \in 1..kk : a[i] # 0]

\* floor(a / 2^n), and whether a nonzero bit was shifted out
BShr[a \in Big, n \in Nat] ==
    IF a = <<>> THEN [q |-> <<>>, sticky |-> FALSE]
    ELSE BShrLimbs[a, n,
            IF n \div LimbBits > Len(a) THEN Len(a) ELSE n \div LimbBits]

BBitLen[a \in Big] ==
    IF a = <<>> THEN 0
    ELSE LimbBits * (Len(a) - 1) + BitLenSmall[a[Len(a)]]

\* q, or q + 1 when the part cut off is more than a half, or a half and q is odd
BRoundUp[q \in Big, half \in BOOLEAN, sticky \in BOOLEAN] ==
    IF half /\ (sticky \/ BOdd[q]) THEN BAdd[q, <<1>>] ELSE q

\* x is a value shifted with one bit to spare: that bit is the half
BRoundHalfEven[x \in Shifted, frac \in BOOLEAN] ==
    BRoundUp[BDivSmall[x.q, 2].q, BOdd[x.q], x.sticky \/ frac]

\* the integer nearest to (a + f) / 2^n, ties to even, where 0 < f < 1 when
\* frac and f = 0 otherwise; n >= 1
BShrRound[a \in Big, n \in Nat, frac \in BOOLEAN] == BRoundHalfEven[BShr[a, n - 1], frac]

-----------------------------------------------------------------------------
(* binary64: the value of [m, e] is m * 2^e with 2^52 <= m < 2^53, or 0.   *)
(* Only non-negative finite values occur in the service's arithmetic.      *)

MantBits == 53

FZero == [m |-> <<>>, e |-> 0]

\* a rounded significand that reached 2^53 is halved
FRenormalize[m1 \in Big, e \in Int] ==
    IF BBitLen[m1] > MantBits THEN [m |-> BDivSmall[m1, 2].q, e |-> e + 1]
    ELSE [m |-> m1, e |-> e]

\* FRoundBig for M of L bits
FRoundBits[M \in Big, e \in Int, frac \in BOOLEAN, L \in Nat] ==
    IF L <= MantBits
    THEN [m |-> BShl[M, MantBits - L], e |-> e - (MantBits - L)]
    ELSE FRenormalize[BShrRound[M, L - MantBits, frac], e + (L - MantBits)]

\* (M + f) * 2^e rounded to nearest, ties to even
FRoundBig[M \in Big, e \in Int, frac \in BOOLEAN] ==
    IF M = <<>> THEN FZero ELSE FRoundBits[M, e, frac, BBitLen[M]]

\* float(n) for an int 0 <= n < 2^31
FromInt[n \in Nat] == IF n = 0 THEN FZero ELSE FRoundBig[BFromInt[n], 0, FALSE]

FMul[a \in Float, b \in Float] ==
    IF a.m = <<>> \/ b.m = <<>> THEN FZero
    ELSE FRoundBig[BMul[a.m, b.m], a.e + b.e, FALSE]

FAdd[a \in Float, b \in Float] ==
    IF a.m = <<>> THEN b
    ELSE IF b.m = <<>> THEN a
    ELSE LET lo == IF a.e < b.e THEN a.e ELSE b.e
         IN  FRoundBig[BAdd[BShl[a.m, a.e - lo], BShl[b.m, b.e - lo]], lo, FALSE]

FCmp[a \in Float, b \in Float] ==
    IF a.m = <<>> THEN (IF b.m = <<>> THEN 0 ELSE -1)
    ELSE IF b.m = <<>> THEN 1
    ELSE IF a.e < b.e THEN -1
    ELSE IF a.e > b.e THEN 1
    ELSE BCmp[a.m, b.m]

FLt[a \in Float, b \in Float] == FCmp[a, b] < 0
FGt[a \in Float, b \in Float] == FCmp[a, b] > 0
FGe[a \in Float, b \in Float] == FCmp[a, b] >= 0

\* a - b, for a >= b
FSub[a \in Float, b \in Float] ==
    IF b.m = <<>> THEN a
    ELSE LET lo == IF a.e < b.e THEN a.e ELSE b.e
         IN  FRoundBig[BSub[BShl[a.m, a.e - lo], BShl[b.m, b.e - lo]], lo, FALSE]

FDivRound[x \in QuotRem, e \in Int] == FRoundBig[x.q, e, x.r # 0]

\* a / d for a divisor that is the integer d, 0 < d < Base
FDivInt[a \in Float, d \in Nat] ==
    IF a.m = <<>> THEN FZero
    ELSE FDivRound[BDivSmall[BShl[a.m, 16], d], a.e - 16]

\* int(a): truncation toward zero
FTrunc[a \in Float] ==
    IF a.e >= 0 THEN BToInt[BShl[a.m, a.e]]
    ELSE BToInt[BShr[a.m, 0 - a.e].q]

\* the integer K nearest to a * scale (ties to even), so that
\* round(a, ndigits) is the decimal K / scale with scale = 10^ndigits
FRoundShift[M \in Big, e \in Int] ==
    IF e >= 0 THEN BToInt[BShl[M, e]] ELSE BToInt[BShrRound[M, 0 - e, FALSE]]

FRoundScaled[a \in Float, scale \in Nat] ==
    IF a.m = <<>> THEN 0 ELSE FRoundShift[BMulSmall[a.m, scale], a.e]

\* the float nearest to the decimal k / scale (a literal, or round()'s result)
FromDec[k \in Nat, scale \in Nat] == FDivInt[FromInt[k], scale]

FMin[a \in Float, b \in Float] == IF FLt[b, a] THEN b ELSE a
FMax[a \in Float, b \in Float] == IF FGt[b, a] THEN b ELSE a

-----------------------------------------------------------------------------
(* Python values: Optional[str] is <<>> (None) or <<s>>; str methods.      *)

None == <<>>
Some(s) == <<s>>
\* truthiness of an Optional[str]: None and "" are falsy
Truthy(o) == o # <<>> /\ o[1] # ""

UpperAlpha == "ABCDEFGHIJKLMNOPQRSTUVWXYZ"
LowerAlpha == "abcdefghijklmnopqrstuvwxyz"
Whitespace == {" ", "\t", "\n"}

CharAt(s, i) == SubSeq(s, i, i)

LowerChar(c) ==
    IF \E i \in 1..26 : CharAt(UpperAlpha, i) = c
    THEN CharAt(LowerAlpha, CHOOSE i \in 1..26 : CharAt(UpperAlpha, i) = c)
    ELSE c

\* str.lower(): every character lowered, the string taken by halves
RECURSIVE Lower(_)
Lower(s) ==
    IF Len(s) = 0 THEN ""
    ELSE IF Len(s) = 1 THEN LowerChar(s)
    ELSE Lower(SubSeq(s, 1, Len(s) \div 2))
         \o Lower(SubSeq(s, Len(s) \div 2 + 1, Len(s)))

RECURSIVE LStrip(_)
LStrip(s) ==
    IF Len(s) > 0 /\ CharAt(s, 1) \in Whitespace
    THEN LStrip(SubSeq(s, 2, Len(s))) ELSE s

RECURSIVE RStrip(_)
RStrip(s) ==
    IF Len(s) > 0 /\ CharAt(s, Len(s)) \in Whitespace
    THEN RStrip(SubSeq(s, 1, Len(s) - 1)) ELSE s

\* str.strip()
Strip(s) == RStrip(LStrip(s))

\* p in s
Contains(s, p) ==
    \E i \in 1..(Len(s) - Len(p) + 1) : SubSeq(s, i, i + Len(p) - 1) = p

-----------------------------------------------------------------------------
(* The float literals of the source.                                       *)

Dec1[k \in Nat] == FromDec[k, 10]

LitTenths == {2, 3, 5, 10, 15, 20, 25, 30, 40, 50, 55, 75, 100}
Lit == [k \in LitTenths |-> Dec1[k]]

Lit0_2 == Lit[2]
Lit0_3 == Lit[3]
Lit0_5 == Lit[5]
Lit1_0 == Lit[10]
Lit1_5 == Lit[15]
Lit2_0 == Lit[20]
Lit2_5 == Lit[25]
Lit3_0 == Lit[30]
Lit4_0 == Lit[40]
Lit5_0 == Lit[50]
Lit5_5 == Lit[55]
Lit7_5 == Lit[75]
Lit10_0 == Lit[100]
Lit100 == FromInt[100]

-----------------------------------------------------------------------------
(* The static tables.  A dict is the sequence of its items in insertion    *)
(* order; category_scores is only ever read by key.                        *)

\* the tables as written, scores in tenths
BrandLiterals == <<
    [key |-> "zara", name |-> "Zara", tier |-> "fast_fashion",
     overall_score |-> 35,
     category_scores |-> [c \in {"jeans", "t-shirt", "dress", "jacket"} |->
        CASE c = "jeans" -> 32 [] c = "t-shirt" -> 28
          [] c = "dress" -> 35 [] c = "jacket" -> 40],
     avg_lifespan_months |-> 12],
    [key |-> "h&m", name |-> "H&M", tier |-> "fast_fashion",
     overall_score |-> 30,
     category_scores |-> [c \in {"jeans", "t-shirt", "dress", "jacket"} |->
        CASE c = "jeans" -> 28 [] c = "t-shirt" -> 25
          [] c = "dress" -> 30 [] c = "jacket" -> 35],
     avg_lifespan_months |-> 10],
    [key |-> "uniqlo", name |-> "Uniqlo", tier |-> "mid_range",
     overall_score |-> 58,
     category_scores |-> [c \in {"jeans", "t-shirt", "jacket", "pants"} |->
        CASE c = "jeans" -> 55 [] c = "t-shirt" -> 60
          [] c = "jacket" -> 65 [] c = "pants" -> 58],
     avg_lifespan_months |-> 24],
    [key |-> "patagonia", name |-> "Patagonia", tier |-> "premium",
     overall_score |-> 82,
     category_scores |-> [c \in {"jacket", "t-shirt", "pants", "sweater"} |->
        CASE c = "jacket" -> 90 [] c = "t-shirt" -> 75
          [] c = "pants" -> 80 [] c = "sweater" -> 85],
     avg_lifespan_months |-> 60],
    [key |-> "shein", name |-> "Shein", tier |-> "fast_fashion",
     overall_score |-> 15,
     category_scores |-> [c \in {"jeans", "t-shirt", "dress", "jacket"} |->
        CASE c = "jeans" -> 12 [] c = "t-shirt" -> 10
          [] c = "dress" -> 18 [] c = "jacket" -> 20],
     avg_lifespan_months |-> 6],
    [key |-> "levis", name |-> "Levi's", tier |-> "mid_range",
     overall_score |-> 65,
     category_scores |-> [c \in {"jeans", "jacket", "t-shirt", "shorts"} |->
        CASE c = "jeans" -> 75 [] c = "jacket" -> 70
          [] c = "t-shirt" -> 50 [] c = "shorts" -> 65],
     avg_lifespan_months |-> 36],
    [key |-> "gap", name |-> "Gap", tier |-> "mid_range",
     overall_score |-> 45,
     category_scores |-> [c \in {"jeans", "t-shirt", "sweater", "jacket"} |->
        CASE c = "jeans" -> 45 [] c = "t-shirt" -> 40
          [] c = "sweater" -> 50 [] c = "jacket" -> 50],
     avg_lifespan_months |-> 18],
    [key |-> "cos", name |-> "COS", tier |-> "mid_range",
     overall_score |-> 60,
     category_scores |-> [c \in {"dress", "pants", "jacket", "t-shirt"} |->
        CASE c = "dress" -> 65 [] c = "pants" -> 60
          [] c = "jacket" -> 65 [] c = "t-shirt" -> 55],
     avg_lifespan_months |-> 24] >>

CategoryLiterals == <<
    [key |-> "jeans",   avg_score |-> 52, avg_lifespan |-> 24, avg_wears |-> 100],
    [key |-> "t-shirt", avg_score |-> 45, avg_lifespan |-> 18, avg_wears |-> 60],
    [key |-> "jacket",  avg_score |-> 58, avg_lifespan |-> 36, avg_wears |-> 120],
    [key |-> "dress",   avg_score |-> 48, avg_lifespan |-> 20, avg_wears |-> 40],
    [key |-> "pants",   avg_score |-> 50, avg_lifespan |-> 24, avg_wears |-> 80],
    [key |-> "sweater", avg_score |-> 55, avg_lifespan |-> 30, avg_wears |-> 70],
    [key |-> "shirt",   avg_score |-> 50, avg_lifespan |-> 24, avg_wears |-> 60],
    [key |-> "shorts",  avg_score |-> 45, avg_lifespan |-> 24, avg_wears |-> 50],
    [key |-> "coat",    avg_score |-> 60, avg_lifespan |-> 48, avg_wears |-> 150] >>

\* the float of every score literal
BrandDataInit ==
    [i \in 1..Len(BrandLiterals) |->
        [key |-> BrandLiterals[i].key, name |-> BrandLiterals[i].name,
         tier |-> BrandLiterals[i].tier,
         overall_score |-> Dec1[BrandLiterals[i].overall_score],
         category_scores |-> [c \in DOMAIN BrandLiterals[i].category_scores |->
                                Dec1[BrandLiterals[i].category_scores[c]]],
         avg_lifespan_months |-> BrandLiterals[i].avg_lifespan_months]]

CategoryAveragesInit ==
    [i \in 1..Len(CategoryLiterals) |->
        [key |-> CategoryLiterals[i].key,
         avg_score |-> Dec1[CategoryLiterals[i].avg_score],
         avg_lifespan |-> CategoryLiterals[i].avg_lifespan,
         avg_wears |-> CategoryLiterals[i].avg_wears]]

\* dict.get(k): None, or the item stored under k
DictGet(d, k) ==
    IF \E i \in 1..Len(d) : d[i].key = k
    THEN <<d[CHOOSE i \in 1..Len(d) : d[i].key = k]>>
    ELSE <<>>

DefaultAvgWears == 60
DefaultAvgLifespan == 18

-----------------------------------------------------------------------------
(* Scoring logic.                                                          *)

\* the natural-fibre boosts as independent ifs instead of an elif chain
calculate_material_score_all_boosts(composition) ==
    IF ~Truthy(composition) THEN Lit5_0
    ELSE LET comp_lower == Lower(composition[1])
             b1 == IF \/ Contains(comp_lower, "100% cotton")
                      \/ Contains(comp_lower, "100% wool")
                      \/ Contains(comp_lower, "100% linen")
                   THEN FAdd[Lit5_0, Lit3_0] ELSE Lit5_0
             b2 == IF Contains(comp_lower, "cotton") THEN FAdd[b1, Lit1_5] ELSE b1
             b3 == IF Contains(comp_lower, "wool") \/ Contains(comp_lower, "linen")
                   THEN FAdd[b2, Lit2_0] ELSE b2
             p1 == IF Contains(comp_lower, "polyester") THEN FSub[b3, Lit1_5] ELSE b3
             p2 == IF Contains(comp_lower, "acrylic") THEN FSub[p1, Lit2_0] ELSE p1
             p3 == IF Contains(comp_lower, "viscose") \/ Contains(comp_lower, "rayon")
                   THEN FSub[p2, Lit0_5] ELSE p2
         IN  FMax[Lit1_0, FMin[Lit10_0, p3]]

\* natural fibers boost: the if / elif / elif chain on score = 5.0
MaterialBoost(comp_lower) ==
    IF \/ Contains(comp_lower, "100% cotton")
       \/ Contains(comp_lower, "100% wool")
       \/ Contains(comp_lower, "100% linen")
    THEN FAdd[Lit5_0, Lit3_0]
    ELSE IF Contains(comp_lower, "cotton") THEN FAdd[Lit5_0, Lit1_5]
    ELSE IF Contains(comp_lower, "wool") \/ Contains(comp_lower, "linen")
    THEN FAdd[Lit5_0, Lit2_0]
    ELSE Lit5_0

\* synthetic penalties: three independent ifs
PenaltyPolyester(comp_lower, score) ==
    IF Contains(comp_lower, "polyester") THEN FSub[score, Lit1_5] ELSE score

PenaltyAcrylic(comp_lower, score) ==
    IF Contains(comp_lower, "acrylic") THEN FSub[score, Lit2_0] ELSE score

PenaltyViscose(comp_lower, score) ==
    IF Contains(comp_lower, "viscose") \/ Contains(comp_lower, "rayon")
    THEN FSub[score, Lit0_5] ELSE score

MaterialScoreOf(comp_lower) ==
    FMax[Lit1_0,
         FMin[Lit10_0,
              PenaltyViscose(comp_lower,
                  PenaltyAcrylic(comp_lower,
                      PenaltyPolyester(comp_lower, MaterialBoost(comp_lower))))]]

calculate_material_score(composition) ==
    IF ~Truthy(composition) THEN Lit5_0
    ELSE MaterialScoreOf(Lower(composition[1]))

\* brand_data["category_scores"].get(category, brand_data["overall_score"])
CategoryScoreOf(brand_data, category) ==
    IF category \in DOMAIN brand_data.category_scores
    THEN brand_data.category_scores[category]
    ELSE brand_data.overall_score

\* the brand lookup without strip()
get_brand_score_no_strip(bd, brand, category) ==
    LET brand_data == DictGet(bd, Lower(brand))
    IN  IF brand_data = <<>> THEN [score |-> Lit5_0, brand_data |-> <<>>]
        ELSE [score |-> CategoryScoreOf(brand_data[1], category),
              brand_data |-> brand_data]

get_brand_score(bd, brand, category) ==
    LET brand_key  == Strip(Lower(brand))
        brand_data == DictGet(bd, brand_key)
    IN  IF brand_data = <<>> THEN [score |-> Lit5_0, brand_data |-> <<>>]
        ELSE [score |-> CategoryScoreOf(brand_data[1], category),
              brand_data |-> brand_data]

\* the multiplier taken with floor division: quality_score // 5.0
calculate_predicted_wears_floor_division(ca, quality_score, category) ==
    LET category_data == DictGet(ca, category)
        base_wears == IF category_data = <<>> THEN DefaultAvgWears
                      ELSE category_data[1].avg_wears
        multiplier == FromInt[FTrunc[FDivInt[quality_score, 5]]]
    IN  FTrunc[FMul[FromInt[base_wears], multiplier]]

calculate_predicted_wears(ca, quality_score, category) ==
    LET category_data == DictGet(ca, category)
        base_wears == IF category_data = <<>> THEN DefaultAvgWears
                      ELSE category_data[1].avg_wears
        multiplier == FDivInt[quality_score, 5]
    IN  FTrunc[FMul[FromInt[base_wears], multiplier]]

calculate_lifespan(ca, quality_score, category) ==
    LET category_data == DictGet(ca, category)
        base_lifespan == IF category_data = <<>> THEN DefaultAvgLifespan
                         ELSE category_data[1].avg_lifespan
        multiplier == FDivInt[quality_score, 5]
    IN  FTrunc[FMul[FromInt[base_lifespan], multiplier]]

generate_verdict(quality_score, cost_per_wear, category_avg) ==
    LET quality_desc ==
            IF FGe[quality_score, Lit7_5] THEN "Excellent quality"
            ELSE IF FGe[quality_score, Lit5_5] THEN "Good quality"
            ELSE IF FGe[quality_score, Lit4_0] THEN "Average quality"
            ELSE IF FGe[quality_score, Lit2_5] THEN "Below average quality"
            ELSE "Poor quality"
        comparison ==
            IF FLt[quality_score, FSub[category_avg, Lit1_0]]
            THEN "Below average for this category."
            ELSE IF FGt[quality_score, FAdd[category_avg, Lit1_0]]
            THEN "Above average for this category."
            ELSE "Average for this category."
        value_note ==
            IF FLt[cost_per_wear, Lit1_0] THEN "Good value per wear."
            ELSE IF FLt[cost_per_wear, Lit2_0] THEN "Reasonable value."
            ELSE "Consider if you'll wear it enough to justify the cost."
    IN  quality_desc \o ". " \o comparison \o " " \o value_note

get_price_range(tier) ==
    CASE tier = "fast_fashion" -> "$10-50"
      [] tier = "budget"       -> "$15-40"
      [] tier = "mid_range"    -> "$40-100"
      [] tier = "premium"      -> "$80-250"
      [] tier = "luxury"       -> "$200+"
      [] OTHER                 -> "$30-80"

\* the sort left out: the list stays in table order
InsertDescUnsorted(sorted, x) == sorted \o <<x>>

\* list.sort(key=score, reverse=True): stable, descending
RECURSIVE InsertDesc(_, _)
InsertDesc(sorted, x) ==
    IF sorted = <<>> THEN <<x>>
    ELSE IF FGt[x.score, sorted[Len(sorted)].score]
         THEN InsertDesc(SubSeq(sorted, 1, Len(sorted) - 1), x) \o <<sorted[Len(sorted)]>>
         ELSE sorted \o <<x>>

RECURSIVE SortDescFrom(_, _, _)
SortDescFrom(l, i, acc) ==
    IF i > Len(l) THEN acc ELSE SortDescFrom(l, i + 1, InsertDesc(acc, l[i]))

SortDesc(l) == SortDescFrom(l, 1, <<>>)

MaxAlternatives == 3

RECURSIVE AlternativesFrom(_, _, _, _, _)
AlternativesFrom(bd, i, brand, category, current_score) ==
    IF i > Len(bd) THEN <<>>
    ELSE LET brand_data == bd[i]
             cat_score  == CategoryScoreOf(brand_data, category)
             rest == AlternativesFrom(bd, i + 1, brand, category, current_score)
         IN  IF brand_data.key = Lower(brand) THEN rest
             ELSE IF FGt[cat_score, FAdd[current_score, Lit0_5]]
                  THEN <<[brand |-> brand_data.name, score |-> cat_score,
                          typical_price_range |-> get_price_range(brand_data.tier)]>>
                       \o rest
                  ELSE rest

find_alternatives(bd, brand, category, price, current_score) ==
    LET alternatives == SortDesc(AlternativesFrom(bd, 1, brand, category, current_score))
    IN  SubSeq(alternatives, 1,
               IF Len(alternatives) < MaxAlternatives THEN Len(alternatives)
               ELSE MaxAlternatives)

-----------------------------------------------------------------------------
(* Requests and responses.  A request carries the fields of its endpoint;  *)
(* price is the JSON number in hundredths, parsed to a float on receipt.   *)

NoRequest ==
    [op |-> "none", brand |-> None, item_type |-> None, price |-> 0,
     material_composition |-> None, url |-> None, brand_name |-> "",
     brands |-> <<>>, category |-> ""]

AnalyzeRequest(brand, item_type, price, material_composition, url) ==
    [NoRequest EXCEPT !.op = "analyze", !.brand = brand, !.item_type = item_type,
                      !.price = price, !.material_composition = material_composition,
                      !.url = url]

BrandRequest(brand_name) == [NoRequest EXCEPT !.op = "brand", !.brand_name = brand_name]

CompareRequest(brands, category) ==
    [NoRequest EXCEPT !.op = "compare", !.brands = brands, !.category = category]

CategoriesRequest == [NoRequest EXCEPT !.op = "categories"]
HealthRequest == [NoRequest EXCEPT !.op = "health"]

NoResponse == [status |-> 0, body |-> [detail |-> ""]]

HTTPException(status_code, detail) == [status |-> status_code, body |-> [detail |-> detail]]

\* an exception that escapes the handler: 500 Internal Server Error
ServerError(what) == [status |-> 500, body |-> [detail |-> what]]

Ok(body) == [status |-> 200, body |-> body]

\* AnalyzeResponse: quality_score is declared Field(ge=0, le=10)
AnalyzeResponse(body) ==
    IF FGe[body.quality_score, FZero] /\ FGe[Lit10_0, body.quality_score]
    THEN Ok(body) ELSE ServerError("ResponseValidationError")

-----------------------------------------------------------------------------
(* Endpoints.                                                              *)

\* analyze_item without the item-type check
validate_analyze_brand_only(request) ==
    IF ~Truthy(request.brand) /\ ~Truthy(request.url)
    THEN <<HTTPException(400, "Brand or URL is required")>>
    ELSE <<>>

\* the two checks that open analyze_item: <<>>, or the exception raised
validate_analyze(request) ==
    IF ~Truthy(request.brand) /\ ~Truthy(request.url)
    THEN <<HTTPException(400, "Brand or URL is required")>>
    ELSE IF ~Truthy(request.item_type) /\ ~Truthy(request.url)
    THEN <<HTTPException(400, "Item type is required when not providing URL")>>
    ELSE <<>>

\* the quality score without the construction-proxy term
weighted_quality_score_two_terms(brand_score, material_score) ==
    LET raw == FAdd[FMul[brand_score, Lit0_5], FMul[material_score, Lit0_3]]
    IN  Dec1[FRoundScaled[FMin[Lit10_0, FMax[Lit1_0, raw]], 10]]

\* round(min(10.0, max(1.0, b * 0.5 + m * 0.3 + b * 0.2)), 1)
weighted_quality_score(brand_score, material_score) ==
    Dec1[FRoundScaled[
           FMin[Lit10_0,
                FMax[Lit1_0,
                     FAdd[FAdd[FMul[brand_score, Lit0_5], FMul[material_score, Lit0_3]],
                          FMul[brand_score, Lit0_2]]]],
           10]]

\* The body of analyze_item after validation, statement by statement: each
\* operator takes the locals assigned so far and adds its own.

\* the response object
AnalyzeReturn(request, bs, material_score, quality_score, predicted_wears, predicted_lifespan, category_avg, cost_per_wear, alternatives) ==
    AnalyzeResponse(
      [quality_score |-> quality_score,
       predicted_wears |-> predicted_wears,
       predicted_lifespan_months |-> predicted_lifespan,
       cost_per_wear |-> cost_per_wear,
       verdict |-> generate_verdict(quality_score, cost_per_wear, category_avg),
       factors |-> [brand_score |-> bs.score, material_score |-> material_score],
       brand_average |-> IF bs.brand_data = <<>> THEN <<>>
                         ELSE <<bs.brand_data[1].overall_score>>,
       category_average |-> category_avg,
       better_alternatives |-> alternatives,
       waitlist_url |-> "https://cleanseam.ai/join"])

\* cost_per_wear; the division raises ZeroDivisionError on 0 wears
AnalyzeCost(bd, request, brand, item_type, bs, material_score, quality_score, predicted_wears, predicted_lifespan, category_data) ==
    IF predicted_wears = 0 THEN ServerError("ZeroDivisionError")
    ELSE AnalyzeReturn(request, bs, material_score, quality_score,
            predicted_wears, predicted_lifespan,
            IF category_data = <<>> THEN Lit5_0 ELSE category_data[1].avg_score,
            FromDec[FRoundScaled[FDivInt[FromDec[request.price, 100], predicted_wears],
                                 100], 100],
            find_alternatives(bd, brand, item_type, FromDec[request.price, 100],
                              quality_score))

\* predictions and category average
AnalyzePredict(bd, ca, request, brand, item_type, bs, material_score, quality_score) ==
    AnalyzeCost(bd, request, brand, item_type, bs, material_score, quality_score,
                calculate_predicted_wears(ca, quality_score, item_type),
                calculate_lifespan(ca, quality_score, item_type),
                DictGet(ca, item_type))

\* scores and weighted quality score
AnalyzeScore(bd, ca, request, brand, item_type, bs, material_score) ==
    AnalyzePredict(bd, ca, request, brand, item_type, bs, material_score,
                   weighted_quality_score(bs.score, material_score))

\* brand and item_type defaults
AnalyzeValid(bd, ca, request, brand, item_type) ==
    AnalyzeScore(bd, ca, request, brand, item_type,
                 get_brand_score(bd, brand, item_type),
                 calculate_material_score(request.material_composition))

analyze_item(bd, ca, request) ==
    IF validate_analyze(request) # <<>> THEN validate_analyze(request)[1]
    ELSE AnalyzeValid(bd, ca, request,
            IF Truthy(request.brand) THEN request.brand[1] ELSE "Unknown",
            Lower(IF Truthy(request.item_type) THEN request.item_type[1]
                  ELSE "t-shirt"))

get_brand(bd, brand_name) ==
    LET brand_key  == Strip(Lower(brand_name))
        brand_data == DictGet(bd, brand_key)
    IN  IF brand_data = <<>>
        THEN HTTPException(404, "Brand '" \o brand_name \o "' not found")
        ELSE Ok([name |-> brand_data[1].name,
                 overall_score |-> brand_data[1].overall_score,
                 tier |-> brand_data[1].tier,
                 category_scores |-> brand_data[1].category_scores,
                 avg_lifespan_months |-> brand_data[1].avg_lifespan_months,
                 data_confidence |-> "medium"])

MinCompareBrands == 2

CompareEntry(bd, ca, brand_name, category) ==
    LET bs == get_brand_score(bd, brand_name, category)
    IN  [name |-> IF bs.brand_data = <<>> THEN brand_name ELSE bs.brand_data[1].name,
         score |-> bs.score,
         typical_price |-> IF bs.brand_data = <<>> THEN "Unknown"
                           ELSE get_price_range(bs.brand_data[1].tier),
         predicted_wears |-> calculate_predicted_wears(ca, bs.score, category)]

\* int(((best / worst) - 1) * 100)
Improvement(best_wears, worst_wears) ==
    FTrunc[FMul[FSub[FDivInt[FromInt[best_wears], worst_wears], FromInt[1]], Lit100]]

\* the recommendation, from the sorted results
CompareReturn(category, results, improvement) ==
    Ok([category |-> category,
        brands |-> results,
        improvement |-> improvement,
        recommendation |-> results[1].name \o " offers best value with "
                           \o ToString(improvement) \o "% more predicted wears"])

CompareSorted(category, results) ==
    IF results[Len(results)].predicted_wears = 0 THEN ServerError("ZeroDivisionError")
    ELSE CompareReturn(category, results,
            Improvement(results[1].predicted_wears,
                        results[Len(results)].predicted_wears))

compare_brands(bd, ca, brands, category) ==
    IF Len(brands) < MinCompareBrands
    THEN HTTPException(400, "Need at least 2 brands to compare")
    ELSE CompareSorted(category,
            SortDesc([i \in 1..Len(brands) |->
                        CompareEntry(bd, ca, brands[i], category)]))

list_categories(ca) ==
    Ok([categories |-> [i \in 1..Len(ca) |->
          [name |-> ca[i].key, avg_score |-> ca[i].avg_score,
           avg_lifespan_months |-> ca[i].avg_lifespan]]])

health_check == Ok([status |-> "healthy", version |-> "1.0.0"])

\* the router: the handler of the request's endpoint, run on the tables
Dispatch(bd, ca, request) ==
    CASE request.op = "analyze"    -> analyze_item(bd, ca, request)
      [] request.op = "brand"      -> get_brand(bd, request.brand_name)
      [] request.op = "compare"    -> compare_brands(bd, ca, request.brands, request.category)
      [] request.op = "categories" -> list_categories(ca)
      [] OTHER                     -> health_check

-----------------------------------------------------------------------------
(* The service.  Handlers are coroutines without an await, so the event    *)
(* loop runs each to completion; requests of different clients are         *)
(* received, handled and answered in any order.                            *)

NumClients == 2
MaxCompareBrands == 3

VARIABLES BRAND_DATA, CATEGORY_AVERAGES, pending, response

vars == <<BRAND_DATA, CATEGORY_AVERAGES, pending, response>>

Clients == 1..NumClients

BrandInputs ==
    {None, Some(""), Some("Zara"), Some(" Patagonia "), Some("PATAGONIA"),
     Some("shein"), Some("Levi's"), Some("COS"), Some("Acme")}

ItemTypeInputs ==
    {None, Some(""), Some("Jacket"), Some("jeans"), Some("t-shirt"), Some("dress"),
     Some("coat"), Some("hat")}

CompositionInputs ==
    {None, Some(""), Some("100% Cotton"), Some("60% cotton, 40% polyester"),
     Some("Wool"), Some("linen/rayon blend"), Some("silk"),
     Some("acrylic, polyester, viscose"), Some("100% wool, acrylic trim"),
     Some("100% linen; lining: polyester, viscose, acrylic"),
     Some("cotton/acrylic")}

PriceInputs == {12000, 1999}

UrlInputs == {None, Some("https://shop.example/item/1")}

BrandNameInputs ==
    {"SHEIN", "shein", "Shein", " zara", "H&M", "Levi's", "LEVIS", "doesnotexist",
     "", "Pata gonia", "patagonia\n"}

CompareBrandInputs == {"zara", "Patagonia", "cos", "Acme", " uniqlo "}

CompareCategoryInputs == {"jeans", "Jeans", "jacket", "shorts", "dress", "coat"}

AnalyzeRequests ==
    {AnalyzeRequest(b, i, p, m, u) :
        b \in BrandInputs, i \in ItemTypeInputs, p \in PriceInputs,
        m \in CompositionInputs, u \in UrlInputs}

BrandRequests == {BrandRequest(n) : n \in BrandNameInputs}

CompareRequests ==
    {CompareRequest(bs, c) :
        bs \in UNION {[1..n -> CompareBrandInputs] : n \in 0..MaxCompareBrands},
        c \in CompareCategoryInputs}

Requests ==
    AnalyzeRequests \cup BrandRequests \cup CompareRequests
        \cup {CategoriesRequest, HealthRequest}

\* the requests of the clients that run concurrently
ConcurrentRequests ==
    {AnalyzeRequest(Some(" Patagonia "), Some("Jacket"), 12000,
                    Some("acrylic, polyester, viscose"), None),
     AnalyzeRequest(Some("Zara"), Some("dress"), 1999, Some("100% Cotton"), None),
     AnalyzeRequest(None, None, 1999, None, None),
     BrandRequest("SHEIN"), BrandRequest("doesnotexist"),
     CompareRequest(<<"cos", "Acme">>, "jeans"),
     CompareRequest(<<"zara", "Patagonia", "cos">>, "dress"),
     CompareRequest(<<"zara">>, "jeans"),
     CategoriesRequest, HealthRequest}

Init ==
    /\ BRAND_DATA = BrandDataInit
    /\ CATEGORY_AVERAGES = CategoryAveragesInit
    /\ pending = [c \in Clients |-> NoRequest]
    /\ response = [c \in Clients |-> NoResponse]

Receive(c, request) ==
    /\ pending[c].op = "none"
    /\ pending' = [pending EXCEPT ![c] = request]
    /\ UNCHANGED <<BRAND_DATA, CATEGORY_AVERAGES, response>>

\* a handler that drops the queried brand from the table instead of skipping it
HandleDeleting(c) ==
    /\ pending[c].op # "none"
    /\ response[c].status = 0
    /\ response' = [response EXCEPT
                      ![c] = Dispatch(BRAND_DATA, CATEGORY_AVERAGES, pending[c])]
    /\ BRAND_DATA' =
          IF pending[c].op = "analyze" /\ Truthy(pending[c].brand)
          THEN SelectSeq(BRAND_DATA,
                         LAMBDA r : r.key # Strip(Lower(pending[c].brand[1])))
          ELSE BRAND_DATA
    /\ UNCHANGED <<CATEGORY_AVERAGES, pending>>

Handle(c) ==
    /\ pending[c].op # "none"
    /\ response[c].status = 0
    /\ response' = [response EXCEPT
                      ![c] = Dispatch(BRAND_DATA, CATEGORY_AVERAGES, pending[c])]
    /\ UNCHANGED <<BRAND_DATA, CATEGORY_AVERAGES, pending>>

Reply(c) ==
    /\ response[c].status # 0
    /\ pending' = [pending EXCEPT ![c] = NoRequest]
    /\ response' = [response EXCEPT ![c] = NoResponse]
    /\ UNCHANGED <<BRAND_DATA, CATEGORY_AVERAGES>>

\* one client, every request of the input sets
Next ==
    \/ \E request \in Requests : Receive(1, request)
    \/ Handle(1)
    \/ Reply(1)

Spec == Init /\ [][Next]_vars

\* NumClients clients in flight at once
NextConcurrent ==
    \E c \in Clients :
        \/ \E request \in ConcurrentRequests : Receive(c, request)
        \/ Handle(c)
        \/ Reply(c)

SpecConcurrent == Init /\ [][NextConcurrent]_vars

-----------------------------------------------------------------------------
(* Properties.  Scores are compared as decimals: Tenths(x) is the number   *)
(* of tenths nearest to the float x, and x is a one-decimal number when it *)
(* is the float of that decimal.                                           *)

Done(c) == response[c].status # 0
Absent(o) == o = <<>> \/ o = <<"">>
Abs(n) == IF n < 0 THEN 0 - n ELSE n
Tenths(x) == FRoundScaled[x, 10]
Hundredths(x) == FRoundScaled[x, 100]
OneDecimal(x) == x = FromDec[Tenths(x), 10]

AnalyzeDone(c) == pending[c].op = "analyze" /\ response[c].status = 200
CompareDone(c) == pending[c].op = "compare" /\ response[c].status = 200
BrandOf(request) == IF Absent(request.brand) THEN "Unknown" ELSE request.brand[1]
ItemTypeOf(request) ==
    Lower(IF Absent(request.item_type) THEN "t-shirt" ELSE request.item_type[1])
Passes(request) ==
    ~(Absent(request.brand) /\ Absent(request.url))
        /\ ~(Absent(request.item_type) /\ Absent(request.url))

\* C1: every /analyze request that passes validation is answered with a
\* quality_score that is brand_score*0.5 + material_score*0.3 + brand_score*0.2
\* rounded to one decimal place (a one-decimal number at most 0.05 away from
\* the exact sum), with 1.0 <= quality_score <= 10.0.
C1_QualityScore ==
    \A c \in Clients :
        (pending[c].op = "analyze" /\ Done(c) /\ Passes(pending[c])) =>
            /\ response[c].status = 200
            /\ LET body == response[c].body
                   b10  == Tenths(body.factors.brand_score)
                   m10  == Tenths(body.factors.material_score)
                   q10  == Tenths(body.quality_score)
               IN  /\ OneDecimal(body.factors.brand_score)
                   /\ OneDecimal(body.factors.material_score)
                   /\ OneDecimal(body.quality_score)
                   /\ Abs(10 * q10 - (5 * b10 + 3 * m10 + 2 * b10)) <= 5
                   /\ 10 <= q10 /\ q10 <= 100

\* an unknown brand with "cotton/acrylic": the exact sum is 4.85, a tie
C1_Witness ==
    \E c \in Clients :
        /\ AnalyzeDone(c)
        /\ 7 * Tenths(response[c].body.factors.brand_score)
             + 3 * Tenths(response[c].body.factors.material_score) = 485
        /\ Tenths(response[c].body.quality_score) = 48

\* C2: better_alternatives never contains the queried brand: when the
\* request's brand (lower-cased, trimmed) is the key of a brand record, no
\* alternative carries that record's name.
C2_NoSelfAlternative ==
    \A c \in Clients :
        AnalyzeDone(c) =>
            LET key  == Strip(Lower(BrandOf(pending[c])))
                alts == response[c].body.better_alternatives
            IN  \A i \in 1..Len(BRAND_DATA) :
                    BRAND_DATA[i].key = key =>
                        \A j \in 1..Len(alts) : alts[j].brand # BRAND_DATA[i].name

\* C3 as stated: at most 3 alternatives, each score strictly greater than the
\* next one.
C3_StrictlyDescending ==
    \A c \in Clients :
        AnalyzeDone(c) =>
            LET alts == response[c].body.better_alternatives
            IN  /\ Len(alts) <= 3
                /\ \A j \in 1..(Len(alts) - 1) : FGt[alts[j].score, alts[j + 1].score]

\* C3 as amended: at most 3 alternatives, sorted descending by score, equal
\* scores allowed: each score is greater than or equal to the next one.
C3_Descending ==
    \A c \in Clients :
        AnalyzeDone(c) =>
            LET alts == response[c].body.better_alternatives
            IN  /\ Len(alts) <= 3
                /\ \A j \in 1..(Len(alts) - 1) : FGe[alts[j].score, alts[j + 1].score]

\* three alternatives of which the last two tie (Levi's and COS, 6.5 for a dress)
C3_Witness ==
    \E c \in Clients :
        /\ AnalyzeDone(c)
        /\ Len(response[c].body.better_alternatives) = 3
        /\ response[c].body.better_alternatives[2].score
             = response[c].body.better_alternatives[3].score
        /\ response[c].body.better_alternatives[2].brand
             # response[c].body.better_alternatives[3].brand

\* C4: a /compare with at least 2 brands lists the results in descending order
\* of score, and the percentage N of the recommendation is
\* ((best_wears / worst_wears) - 1) * 100 rounded to the nearest integer.
C4_ImprovementRounded ==
    \A c \in Clients :
        (pending[c].op = "compare" /\ Done(c) /\ Len(pending[c].brands) >= 2) =>
            /\ response[c].status = 200
            /\ LET rs == response[c].body.brands
                   bw == rs[1].predicted_wears
                   ww == rs[Len(rs)].predicted_wears
                   N  == response[c].body.improvement
               IN  /\ \A j \in 1..(Len(rs) - 1) : FGe[rs[j].score, rs[j + 1].score]
                   /\ 2 * Abs(N * ww - 100 * (bw - ww)) <= ww

\* C5: requests lacking identification are rejected with 400 and no computed
\* result (analyze without brand and url, or without item_type and url;
\* compare with fewer than 2 brands); analyze with a url and neither brand
\* nor item_type is not rejected, and is answered as brand "Unknown", item
\* type "t-shirt" is.
C5_Validation ==
    \A c \in Clients :
        Done(c) =>
            LET request == pending[c] IN
            /\ (request.op = "analyze" /\ ~Passes(request)) =>
                    /\ response[c].status = 400
                    /\ DOMAIN response[c].body = {"detail"}
            /\ (request.op = "compare" /\ Len(request.brands) < 2) =>
                    /\ response[c].status = 400
                    /\ DOMAIN response[c].body = {"detail"}
            /\ (request.op = "analyze" /\ ~Absent(request.url)
                    /\ Absent(request.brand) /\ Absent(request.item_type)) =>
                    /\ response[c].status = 200
                    /\ response[c] =
                         analyze_item(BRAND_DATA, CATEGORY_AVERAGES,
                            [request EXCEPT !.brand = Some("Unknown"),
                                            !.item_type = Some("t-shirt")])

\* a brand without item type and without url: rejected
C5_Witness ==
    \E c \in Clients :
        /\ pending[c].op = "analyze"
        /\ ~Absent(pending[c].brand)
        /\ pending[c].item_type = None
        /\ pending[c].url = None
        /\ response[c].status = 400

\* C6: predicted wears never reaches zero: every /analyze request that passes
\* validation and every /compare with at least 2 brands succeeds (no division
\* by zero), and every predicted_wears value of the answer is >= 1.
C6_WearsPositive ==
    \A c \in Clients :
        Done(c) =>
            /\ (pending[c].op = "analyze" /\ Passes(pending[c])) =>
                    /\ response[c].status = 200
                    /\ response[c].body.predicted_wears >= 1
            /\ (pending[c].op = "compare" /\ Len(pending[c].brands) >= 2) =>
                    /\ response[c].status = 200
                    /\ \A j \in 1..Len(response[c].body.brands) :
                            response[c].body.brands[j].predicted_wears >= 1

\* the lowest quality score, 1.0, against the baseline of 60 wears: 12 wears
C6_Witness ==
    \E c \in Clients :
        /\ AnalyzeDone(c)
        /\ response[c].body.quality_score = Lit1_0
        /\ response[c].body.predicted_wears = 12

\* C7: the service is stateless: in every interleaving the two tables keep
\* their startup values, and two clients that sent the same request hold the
\* same response, whatever ran before or in between.
C7_Stateless ==
    /\ BRAND_DATA = BrandDataInit
    /\ CATEGORY_AVERAGES = CategoryAveragesInit
    /\ \A c1, c2 \in Clients :
          (Done(c1) /\ Done(c2) /\ pending[c1] = pending[c2]) =>
              response[c1] = response[c2]

\* two clients answered for the same /analyze request, both in flight at once
C7_Witness ==
    \E c1, c2 \in Clients :
        /\ c1 # c2
        /\ AnalyzeDone(c1) /\ AnalyzeDone(c2)
        /\ pending[c1] = pending[c2]
        /\ Truthy(pending[c1].brand)

ExpectedBrandScore(score, average, brand, category) ==
    LET key == Strip(Lower(brand)) IN
    IF \A i \in 1..Len(BRAND_DATA) : BRAND_DATA[i].key # key
    THEN score = Lit5_0 /\ average = <<>>
    ELSE \E i \in 1..Len(BRAND_DATA) :
            /\ BRAND_DATA[i].key = key
            /\ average = <<BRAND_DATA[i].overall_score>>
            /\ score = IF category \in DOMAIN BRAND_DATA[i].category_scores
                       THEN BRAND_DATA[i].category_scores[category]
                       ELSE BRAND_DATA[i].overall_score

\* C8: the brand score is 5.0 with no record when the lower-cased, trimmed
\* brand is not a key of the table, else the record's score for the category
\* when it has one and its overall_score otherwise, with the record;
\* /brand/{name} resolves by the same key and answers 404 for an unknown brand.
C8_BrandLookup ==
    \A c \in Clients :
        /\ AnalyzeDone(c) =>
              ExpectedBrandScore(response[c].body.factors.brand_score,
                                 response[c].body.brand_average,
                                 BrandOf(pending[c]), ItemTypeOf(pending[c]))
        /\ (pending[c].op = "brand" /\ Done(c)) =>
              LET key == Strip(Lower(pending[c].brand_name)) IN
              IF \A i \in 1..Len(BRAND_DATA) : BRAND_DATA[i].key # key
              THEN response[c].status = 404
              ELSE /\ response[c].status = 200
                   /\ \E i \in 1..Len(BRAND_DATA) :
                        /\ BRAND_DATA[i].key = key
                        /\ response[c].body.name = BRAND_DATA[i].name
                        /\ response[c].body.overall_score = BRAND_DATA[i].overall_score
                        /\ response[c].body.category_scores
                             = BRAND_DATA[i].category_scores

\* " Patagonia " for a jacket scores 9.0, with the record's overall 8.2
C8_Witness ==
    \E c \in Clients :
        /\ AnalyzeDone(c)
        /\ pending[c].brand = Some(" Patagonia ")
        /\ response[c].body.factors.brand_score = Dec1[90]
        /\ response[c].body.brand_average = <<Dec1[82]>>

\* the material score of a composition, in tenths
ExpectedMaterialTenths(composition) ==
    IF Absent(composition) THEN 50
    ELSE LET text  == Lower(composition[1])
             boost == IF \/ Contains(text, "100% cotton") \/ Contains(text, "100% wool")
                         \/ Contains(text, "100% linen") THEN 30
                      ELSE IF Contains(text, "cotton") THEN 15
                      ELSE IF Contains(text, "wool") \/ Contains(text, "linen") THEN 20
                      ELSE 0
             penalties == (IF Contains(text, "polyester") THEN 15 ELSE 0)
                        + (IF Contains(text, "acrylic") THEN 20 ELSE 0)
                        + (IF Contains(text, "viscose") \/ Contains(text, "rayon")
                           THEN 5 ELSE 0)
             sum == 50 + boost - penalties
         IN  IF sum < 10 THEN 10 ELSE IF sum > 100 THEN 100 ELSE sum

\* C9: the material score is clamp(5.0 + boost - penalties) within [1.0, 10.0]:
\* one boost at most (+3.0 for a 100% natural fibre, else +1.5 for cotton, else
\* +2.0 for wool or linen), the penalties summed (1.5 polyester, 2.0 acrylic,
\* 0.5 viscose or rayon), and 5.0 for an absent or empty composition.
C9_MaterialScore ==
    \A c \in Clients :
        AnalyzeDone(c) =>
            LET m == response[c].body.factors.material_score IN
            /\ m = FromDec[ExpectedMaterialTenths(pending[c].material_composition), 10]
            /\ 10 <= Tenths(m) /\ Tenths(m) <= 100

\* a 100% linen shell with every penalty: 5.0 + 3.0 - 4.0 = 4.0
C9_Witness ==
    \E c \in Clients :
        /\ AnalyzeDone(c)
        /\ pending[c].material_composition
             = Some("100% linen; lining: polyester, viscose, acrylic")
        /\ response[c].body.factors.material_score = Dec1[40]

\* C10: predicted_wears = floor(avg_wears * quality_score / 5.0) and
\* predicted_lifespan_months = floor(avg_lifespan * quality_score / 5.0), with
\* the baselines 60 and 18 for an unknown category, and cost_per_wear is
\* price / predicted_wears rounded to 2 decimals.
C10_Predictions ==
    \A c \in Clients :
        AnalyzeDone(c) =>
            LET body == response[c].body
                q10  == Tenths(body.quality_score)
                category_data == DictGet(CATEGORY_AVERAGES, ItemTypeOf(pending[c]))
                wears == IF category_data = <<>> THEN 60 ELSE category_data[1].avg_wears
                life  == IF category_data = <<>> THEN 18 ELSE category_data[1].avg_lifespan
            IN  /\ body.predicted_wears = (wears * q10) \div 50
                /\ body.predicted_lifespan_months = (life * q10) \div 50
                /\ body.cost_per_wear = FromDec[Hundredths(body.cost_per_wear), 100]
                /\ 2 * Abs(Hundredths(body.cost_per_wear) * body.predicted_wears
                             - pending[c].price) <= body.predicted_wears

====
